---- MODULE Spec2Model ----
(***************************************************************************)
(* A model of simplipy's API object (src/simplipy/api.py): the credential  *)
(* state of one session, the request dispatcher, the authentication        *)
(* routine and the token refresh, as coroutines that run on one event loop *)
(* and suspend only while a network call is in flight.                     *)
(*                                                                         *)
(* Every coroutine invocation is a frame on the call stack of its task; a  *)
(* step runs a task from one suspension to the next, or to its end.        *)
(***************************************************************************)
EXTENDS Integers, Sequences, FiniteSets, TLC

\* ------------------------------------------------------------------ bounds

\* The clock runs from 1 to MaxTime.
MaxTime == 2
\* The deepest call stack of one task (Python stops at its recursion limit).
MaxDepth == 6
\* The server issues at most this many token pairs.
MaxIssued == 2
\* The most subscriptions a response lists.
MaxSubs == 3
\* The longest client identifier a caller supplies, in bytes.
MaxIdLen == 7

\* --------------------------------------------------------------- constants

\* The pre-emptive refresh margin, in seconds (line 224).
Margin == 60
\* An unset Optional field (lines 69-72, 80); tokens, times and ids are >= 1.
None == 0

Tasks == {1, 2}
\* The user ids the identity check may answer with.
UserIds == {7, 401}
\* The user ids in the paths a caller requests.
PathIds == UserIds \cup {403}
Statuses == {200, 401, 403, 500}
Markers == {"none", "mfa_required", "NoRemoteManagement"}
\* The lifetimes the server declares: expired at once, or a second later.
Lifetimes == {Margin, Margin + 1}

\* The four error kinds of simplipy.errors (lines 12-17).
Classified ==
  {"PendingAuthorizationError", "InvalidCredentialsError",
   "EndpointUnavailable", "RequestError"}

\* --------------------------------------------------------------- endpoints

\* An endpoint is its path with the number the path embeds (0: none).
TokenEp == [path |-> "api/token", uid |-> 0]
ChallengeEp == [path |-> "api/mfa/challenge", uid |-> 0]
AuthCheckEp == [path |-> "api/authCheck", uid |-> 0]
SubscriptionsEp(uid) == [path |-> "users/subscriptions", uid |-> uid]
NoEp == [path |-> "", uid |-> 0]
\* Not an endpoint: websocket.async_init(access_token, user_id) in a trace.
WebsocketInitOf(uid) == [path |-> "websocket.async_init", uid |-> uid]

\* The endpoints a caller passes to request: users/<user_id>/subscriptions.
TargetEndpoints == {SubscriptionsEp(u) : u \in PathIds}

\* ------------------------------------------------------------------ values

NoBody == [content |-> "empty", tok |-> 0, life |-> 0, uid |-> 0]
NoRet == [kind |-> "none", body |-> NoBody, err |-> "", msg |-> "", src |-> ""]
NoWs == [tok |-> None, uid |-> None]
NoSelf ==
  [access_token |-> None, access_token_expire |-> None,
   actively_refreshing |-> FALSE, refresh_token |-> None, user_id |-> None]
\* No answer observed yet.
NoLast ==
  [kind |-> "none", status |-> 0, marker |-> "none", ep |-> NoEp, sent |-> 0,
   before |-> NoSelf, after |-> NoSelf, out |-> "none", err |-> "",
   msg |-> ""]

Value(body) ==
  [kind |-> "value", body |-> body, err |-> "", msg |-> "", src |-> ""]
Raise(err, msg, src) ==
  [kind |-> "raise", body |-> NoBody, err |-> err, msg |-> msg, src |-> src]

\* A coroutine invocation: the function, where it stands, request's endpoint
\* and pool ("none", "borrowed", "open", "closed"), whether request took the
\* pre-flight branch, the length of the task's trace when the frame began (for
\* authenticate: when it saw mfa_token), what authenticate hands the event
\* channel, and whether the credentials of the object are still untouched
\* since the coroutine was called.
Frame(fn, pc, ep, base) ==
  [fn |-> fn, pc |-> pc, ep |-> ep, own |-> "none", pre |-> FALSE,
   base |-> base, mfa |-> FALSE, ws |-> NoWs, same |-> TRUE]

VARIABLES
  self,       \* the API object: _access_token, _access_token_expire,
              \* _actively_refreshing, _refresh_token, user_id
  session,    \* the injected pool: "open", or "closed" (closed, or none)
  now,        \* datetime.now()
  issued,     \* the token pairs the server has issued
  phase,      \* "new", "ready" or "dead": the login's outcome
  conc,       \* whether the caller runs two tasks on the session
  stack,      \* per task, the frames of its coroutine calls
  ret,        \* per task, what its last finished frame returned or raised
  trace,      \* per task, what its operation has sent so far: each call
              \* with the access token it carried, and each initialisation
              \* of the event channel with its token and user id
  pools,      \* per task, the locally created pools that are open
  last,       \* per task, the last answer request classified in its
              \* operation: the answer, the object before and after the
              \* classification, and what request did
  wrote,      \* per task, the fields of the object that code other than
              \* authenticate's has changed in its operation so far, each
              \* with the function whose code changed it
  gs,         \* get_systems: the subscriptions of the response, the index of
              \* the loop, the registry so far, where the coroutine stands
              \* and the error it raised
  dev,        \* __init__: the client identifier the caller passed, the one
              \* stored and the device id derived from it
  hist        \* history: due is the instant the stored access token was
              \* stored at, plus the lifetime declared with it, less the
              \* margin (None: no lifetime declared); forced is the instant
              \* at which line 321 has last set the expiry since (None: never)

vars == <<self, session, now, issued, phase, conc, stack, ret,
          trace, pools, last, wrote, gs, dev, hist>>

\* The variables of the session, and those of get_systems and __init__.
apivars == <<self, session, now, issued, phase, conc, stack, ret,
             trace, pools, last, wrote, hist>>
pure == <<gs, dev>>

\* ----------------------------------------------------------------- helpers

\* What the code of task t reads and writes while it runs: w.mode is "run"
\* until the coroutine suspends ("await"), the task ends ("done") or the
\* stack is full ("stuck").
World(t) ==
  [self |-> self, phase |-> phase, hist |-> hist, stack |-> stack[t],
   ret |-> ret[t], trace |-> trace[t], pools |-> pools[t],
   last |-> last[t], wrote |-> wrote[t], mode |-> "run"]

Top(w) == w.stack[Len(w.stack)]
Pop(s) == SubSeq(s, 1, Len(s) - 1)
SetTop(s, f) == [s EXCEPT ![Len(s)] = f]

\* The top frame finishes with r: its caller resumes, or the task ends.
PopWith(w, r) ==
  [w EXCEPT !.stack = Pop(@), !.ret = r,
            !.mode = IF Len(w.stack) = 1 THEN "done" ELSE "run"]

\* The top frame becomes f and calls g.
Call(w, f, g) ==
  IF Len(w.stack) >= MaxDepth
  THEN [w EXCEPT !.mode = "stuck"]
  ELSE [w EXCEPT !.stack = Append(SetTop(@, f), g), !.ret = NoRet]

\* ------------------------------------------------------ the server's answers

\* The server has tokens left to issue.
CanIssue == issued < MaxIssued

\* The token pair the server issues next: its serial stands for both tokens.
NewToken == issued + 1

\* The bodies the server may answer a call of endpoint ep with. "noexp" is a
\* token body without a usable expires_in; "empty" carries none of the fields
\* the caller reads.
Bodies(ep) ==
  IF ep = TokenEp
  THEN {[content |-> c, tok |-> NewToken, life |-> l, uid |-> 0] :
          c \in IF CanIssue THEN {"tokens"} ELSE {}, l \in Lifetimes}
       \cup {[content |-> c, tok |-> NewToken, life |-> 0, uid |-> 0] :
               c \in IF CanIssue THEN {"noexp"} ELSE {}}
       \cup {[content |-> "mfa_token", tok |-> 0, life |-> 0, uid |-> 0],
             NoBody}
  ELSE IF ep = ChallengeEp
  THEN {[content |-> "oob_code", tok |-> 0, life |-> 0, uid |-> 0], NoBody}
  ELSE IF ep = AuthCheckEp
  THEN {[content |-> "userId", tok |-> 0, life |-> 0, uid |-> u] : u \in UserIds}
       \cup {NoBody}
  ELSE {[content |-> "data", tok |-> 0, life |-> 0, uid |-> 0]}

\* What a call of endpoint ep may end in: an HTTP response with a JSON body,
\* one whose body is not JSON ("text"), a failure before any response
\* ("transport") or a failure while the body is read ("payload"). The parts
\* of an answer the code never reads are left out: the markers of a 2xx
\* body, and the fields of a failing body that is not returned.
Responses(ep) ==
  {[kind |-> "http", status |-> 200, marker |-> "none", body |-> b] :
     b \in Bodies(ep)}
  \cup {[kind |-> "http", status |-> st, marker |-> "mfa_required", body |-> b] :
          st \in Statuses \ {200}, b \in Bodies(ep)}
  \cup {[kind |-> "http", status |-> st, marker |-> m, body |-> NoBody] :
          st \in Statuses \ {200}, m \in Markers \ {"mfa_required"}}
  \cup {[kind |-> "text", status |-> st, marker |-> "none", body |-> NoBody] :
          st \in Statuses}
  \cup {[kind |-> k, status |-> 0, marker |-> "none", body |-> NoBody] :
          k \in {"transport", "payload"}}

\* --------------------------------------------------- request: pure parts

\* resp.json(), with the JSONDecodeError fallback {"error": <text>}: the
\* text of a body that is not JSON is no marker and holds no field.
Decode(resp) ==
  IF resp.kind = "text"
  THEN [marker |-> "none", body |-> NoBody]
  ELSE [marker |-> resp.marker, body |-> resp.body]

\* Whether the decimal digits d (three of them) occur in the number n.
InNumber(n, d) == \E k \in 0..3 : (n \div (10 ^ k)) % 1000 = d

\* `"<d>" in str(err)`: aiohttp renders a ClientResponseError as
\* "<status>, message='<reason>', url=URL('<base>/<endpoint>')", so the digits
\* are looked for in the status and in the endpoint alike.
InStrErr(status, ep, d) == InNumber(status, d) \/ InNumber(ep.uid, d)

\* resp.raise_for_status() raises for a status of 400 and above.
RaisesForStatus(status) == status >= 400

\* The except-branch with line 323 left out: a 401 without a refresh token
\* falls through to the tests that follow.
ClassifyNoTokenFallsThrough(status, data, ep, refreshing, rtoken) ==
  IF data.marker = "mfa_required" THEN "return"
  ELSE IF data.marker = "NoRemoteManagement" THEN "EndpointUnavailable"
  ELSE IF InStrErr(status, ep, 401) /\ refreshing THEN "Repeated401"
  ELSE IF InStrErr(status, ep, 401) /\ rtoken # None THEN "retry"
  ELSE IF InStrErr(status, ep, 403) THEN "InvalidCredentialsError"
  ELSE "RequestError"

\* The except-branch with the status tests ahead of the tests of the body.
ClassifyStatusFirst(status, data, ep, refreshing, rtoken) ==
  IF InStrErr(status, ep, 401)
  THEN IF refreshing THEN "Repeated401"
       ELSE IF rtoken # None THEN "retry"
       ELSE "InvalidCredentialsError"
  ELSE IF InStrErr(status, ep, 403) THEN "InvalidCredentialsError"
  ELSE IF data.marker = "mfa_required" THEN "return"
  ELSE IF data.marker = "NoRemoteManagement" THEN "EndpointUnavailable"
  ELSE "RequestError"

\* The except-branch of request, as the rule that fires.
Classify(status, data, ep, refreshing, rtoken) ==
  IF data.marker = "mfa_required" THEN "return"
  ELSE IF data.marker = "NoRemoteManagement" THEN "EndpointUnavailable"
  ELSE IF InStrErr(status, ep, 401)
  THEN IF refreshing THEN "Repeated401"
       ELSE IF rtoken # None THEN "retry"
       ELSE "InvalidCredentialsError"
  ELSE IF InStrErr(status, ep, 403) THEN "InvalidCredentialsError"
  ELSE "RequestError"

\* What request ends in when rule fires on the decoded body data.
RuleResult(rule, data) ==
  IF rule = "return" THEN Value(data.body)
  ELSE IF rule = "Repeated401"
  THEN Raise("InvalidCredentialsError",
             "Repeated 401s despite refreshing access token", "request")
  ELSE IF rule = "InvalidCredentialsError"
  THEN Raise("InvalidCredentialsError", "Invalid username/password", "request")
  ELSE IF rule = "EndpointUnavailable"
  THEN Raise("EndpointUnavailable", "Endpoint unavailable in plan", "request")
  ELSE Raise("RequestError", "There was an error while requesting", "request")

\* The pre-flight test of request.
NeedsRefresh(w) ==
  /\ w.self.access_token_expire # None
  /\ now >= w.self.access_token_expire
  /\ ~w.self.actively_refreshing

\* self._session and not self._session.closed
UseRunningSession == session = "open"

\* The finally-clause of request: a locally created pool is closed.
ClosePool(w) ==
  IF Top(w).own = "open"
  THEN [w EXCEPT !.stack = SetTop(@, [Top(w) EXCEPT !.own = "closed"]),
                 !.pools = @ - 1]
  ELSE w

\* ---------------------------------------------------------------- request

\* Lines 278-294 with the guard released where the coroutine suspends.
SendReleasesGuard(w) ==
  LET own == IF UseRunningSession THEN "borrowed" ELSE "open" IN
  [w EXCEPT !.self.actively_refreshing = FALSE,
            !.stack = SetTop(@, [Top(w) EXCEPT !.pc = "await", !.own = own]),
            !.pools = IF own = "open" THEN @ + 1 ELSE @,
            !.trace = Append(@, [ep |-> Top(w).ep,
                                 tok |-> w.self.access_token]),
            !.ret = NoRet,
            !.mode = "await"]

\* Header injection, pool selection and the call itself (lines 278-294): the
\* coroutine suspends until the server answers.
Send(w) ==
  LET own == IF UseRunningSession THEN "borrowed" ELSE "open" IN
  [w EXCEPT !.stack = SetTop(@, [Top(w) EXCEPT !.pc = "await", !.own = own]),
            !.pools = IF own = "open" THEN @ + 1 ELSE @,
            !.trace = Append(@, [ep |-> Top(w).ep,
                                 tok |-> w.self.access_token]),
            !.ret = NoRet,
            !.mode = "await"]

\* request with the stale access token dropped where line 275 sets the guard.
RequestStartDropsToken(w) ==
  IF NeedsRefresh(w)
  THEN Call([w EXCEPT !.self.actively_refreshing = TRUE,
                      !.self.access_token = None],
            [Top(w) EXCEPT !.pc = "preflight_wait", !.pre = TRUE],
            Frame("refresh_access_token", "start", NoEp, Len(w.trace)))
  ELSE Send(w)

\* request with line 276 not awaited: the call goes out while the refresh has
\* yet to run.
RequestStartRefreshNotAwaited(w) ==
  IF NeedsRefresh(w)
  THEN Send([w EXCEPT !.self.actively_refreshing = TRUE,
                      !.stack = SetTop(@, [Top(w) EXCEPT !.pre = TRUE])])
  ELSE Send(w)

\* request is entered: the pre-flight check (lines 266-276), then the call.
RequestStart(w) ==
  IF NeedsRefresh(w)
  THEN Call([w EXCEPT !.self.actively_refreshing = TRUE],
            [Top(w) EXCEPT !.pc = "preflight_wait", !.pre = TRUE],
            Frame("refresh_access_token", "start", NoEp, Len(w.trace)))
  ELSE Send(w)

\* The pre-flight refresh is over: its failure is request's failure, else
\* the call is sent.
RequestAfterRefresh(w) ==
  IF w.ret.kind = "raise" THEN PopWith(w, w.ret) ELSE Send(w)

\* What request did with the answer r: w is the task before and v after;
\* sent is how many entries the trace held when the answer came.
Observed(w, v, r) ==
  [kind |-> IF r.kind = "text" THEN "http" ELSE r.kind,
   status |-> r.status, marker |-> Decode(r).marker,
   ep |-> Top(w).ep, sent |-> Len(w.trace),
   before |-> w.self, after |-> v.self,
   out |-> IF Len(v.stack) > Len(w.stack) THEN "retry" ELSE v.ret.kind,
   err |-> v.ret.err, msg |-> v.ret.msg]

\* Lines 292-335 without line 321: the call is re-issued with the expiry
\* left as it is.
AnsweredExpiryNotForced(w, r) ==
  LET f == Top(w)
      data == Decode(r)
      rule == Classify(r.status, data, f.ep, w.self.actively_refreshing,
                       w.self.refresh_token)
  IN
  IF r.kind \in {"transport", "payload"}
  THEN PopWith(w, Raise("ClientError", "", "request"))
  ELSE IF ~RaisesForStatus(r.status)
  THEN PopWith(ClosePool(w), Value(data.body))
  ELSE IF rule = "retry"
  THEN Call(w, [f EXCEPT !.pc = "retry_wait"],
            Frame("request", "start", f.ep, Len(w.trace)))
  ELSE PopWith(ClosePool(w), RuleResult(rule, data))

\* Lines 292-335 with the access token dropped where line 321 sets the
\* expiry.
AnsweredDropsToken(w, r) ==
  LET f == Top(w)
      data == Decode(r)
      rule == Classify(r.status, data, f.ep, w.self.actively_refreshing,
                       w.self.refresh_token)
  IN
  IF r.kind \in {"transport", "payload"}
  THEN PopWith(w, Raise("ClientError", "", "request"))
  ELSE IF ~RaisesForStatus(r.status)
  THEN PopWith(ClosePool(w), Value(data.body))
  ELSE IF rule = "retry"
  THEN Call([w EXCEPT !.self.access_token_expire = now,
                      !.self.access_token = None,
                      !.hist.forced = now],
            [f EXCEPT !.pc = "retry_wait"],
            Frame("request", "start", f.ep, Len(w.trace)))
  ELSE PopWith(ClosePool(w), RuleResult(rule, data))

\* Lines 292-335: the server's answer r is decoded and classified.
Answered(w, r) ==
  LET f == Top(w)
      data == Decode(r)
      rule == Classify(r.status, data, f.ep, w.self.actively_refreshing,
                       w.self.refresh_token)
  IN
  IF r.kind \in {"transport", "payload"}
  THEN \* raised outside the try: the finally-clause is not reached
       PopWith(w, Raise("ClientError", "", "request"))
  ELSE IF ~RaisesForStatus(r.status)
  THEN PopWith(ClosePool(w), Value(data.body))
  ELSE IF rule = "retry"
  THEN Call([w EXCEPT !.self.access_token_expire = now,
                      !.hist.forced = now],
            [f EXCEPT !.pc = "retry_wait"],
            Frame("request", "start", f.ep, Len(w.trace)))
  ELSE PopWith(ClosePool(w), RuleResult(rule, data))

RequestClassify(w, r) ==
  LET v == Answered(w, r) IN [v EXCEPT !.last = Observed(w, v, r)]

\* The re-issued call is over: the finally-clause closes the pool and the
\* outcome of the re-issued call is this call's outcome.
RequestAfterRetry(w) == PopWith(ClosePool(w), w.ret)

\* ------------------------------------------------------------ authenticate

\* Line 192: the token exchange.
AuthStart(w) ==
  Call(w, [Top(w) EXCEPT !.pc = "token_wait"],
       Frame("request", "start", TokenEp, Len(w.trace)))

\* Lines 194-228 with the margin of line 224 left out.
AuthAfterTokenNoMargin(w) ==
  LET f == Top(w)
      b == w.ret.body
  IN
  IF w.ret.kind = "raise" THEN PopWith(w, w.ret)
  ELSE IF b.content = "mfa_token"
  THEN Call(w, [f EXCEPT !.pc = "challenge_wait", !.mfa = TRUE,
                         !.base = Len(w.trace)],
            Frame("request", "start", ChallengeEp, Len(w.trace)))
  ELSE IF b.content = "tokens"
  THEN Call([w EXCEPT !.self.access_token = b.tok,
                      !.self.access_token_expire = now + b.life,
                      !.self.refresh_token = b.tok,
                      !.hist = [due |-> now + b.life - Margin,
                                forced |-> None]],
            [f EXCEPT !.pc = "authcheck_wait"],
            Frame("request", "start", AuthCheckEp, Len(w.trace)))
  ELSE IF b.content = "noexp"
  THEN PopWith([w EXCEPT !.self.access_token = b.tok,
                         !.hist.due = None],
               Raise("KeyError", "expires_in", "authenticate"))
  ELSE PopWith(w, Raise("KeyError", "access_token", "authenticate"))

\* Lines 194-228, from the token response to the next call.
AuthAfterToken(w) ==
  LET f == Top(w)
      b == w.ret.body
  IN
  IF w.ret.kind = "raise" THEN PopWith(w, w.ret)
  ELSE IF b.content = "mfa_token"
  THEN Call(w, [f EXCEPT !.pc = "challenge_wait", !.mfa = TRUE,
                         !.base = Len(w.trace)],
            Frame("request", "start", ChallengeEp, Len(w.trace)))
  ELSE IF b.content = "tokens"
  THEN Call([w EXCEPT !.self.access_token = b.tok,
                      !.self.access_token_expire = now + b.life - Margin,
                      !.self.refresh_token = b.tok,
                      !.hist = [due |-> now + b.life - Margin,
                                forced |-> None]],
            [f EXCEPT !.pc = "authcheck_wait"],
            Frame("request", "start", AuthCheckEp, Len(w.trace)))
  ELSE IF b.content = "noexp"
  THEN \* line 222 has stored the token when line 224 raises
       PopWith([w EXCEPT !.self.access_token = b.tok,
                         !.hist.due = None],
               Raise("KeyError", "expires_in", "authenticate"))
  ELSE PopWith(w, Raise("KeyError", "access_token", "authenticate"))

\* Lines 195-215: the challenge has answered; the second token exchange.
AuthAfterChallenge(w) ==
  IF w.ret.kind = "raise" THEN PopWith(w, w.ret)
  ELSE IF w.ret.body.content = "oob_code"
  THEN Call(w, [Top(w) EXCEPT !.pc = "token2_wait"],
            Frame("request", "start", TokenEp, Len(w.trace)))
  ELSE PopWith(w, Raise("KeyError", "oob_code", "authenticate"))

\* Lines 205-220 with the tokens of the second exchange kept before line 217
\* raises.
AuthAfterToken2KeepsToken(w) ==
  IF w.ret.kind = "raise" THEN PopWith(w, w.ret)
  ELSE PopWith([w EXCEPT !.self.access_token =
                           IF w.ret.body.tok # 0 THEN w.ret.body.tok ELSE @],
               Raise("PendingAuthorizationError",
                     "Check your email for an MFA link", "authenticate"))

\* Lines 205-220: the second token exchange has returned.
AuthAfterToken2(w) ==
  IF w.ret.kind = "raise" THEN PopWith(w, w.ret)
  ELSE PopWith(w, Raise("PendingAuthorizationError",
                        "Check your email for an MFA link", "authenticate"))

\* Lines 228-231: the identity check has answered; the event channel is
\* handed the stored access token and the user id, and the coroutine
\* suspends until the channel is up.
AuthAfterAuthCheck(w) ==
  LET b == w.ret.body IN
  IF w.ret.kind = "raise" THEN PopWith(w, w.ret)
  ELSE IF b.content = "userId"
  THEN [w EXCEPT !.self.user_id = b.uid,
                 !.stack = SetTop(@, [Top(w) EXCEPT
                             !.pc = "ws_wait",
                             !.ws = [tok |-> w.self.access_token,
                                     uid |-> b.uid]]),
                 !.ret = NoRet,
                 !.mode = "await"]
  ELSE PopWith(w, Raise("KeyError", "userId", "authenticate"))

\* websocket.async_init has returned or raised (line 231).
AuthAfterWebsocket(w, ok) ==
  IF ok
  THEN PopWith([w EXCEPT !.trace = Append(@, [ep |-> WebsocketInitOf(Top(w).ws.uid),
                                               tok |-> Top(w).ws.tok])],
               Value(NoBody))
  ELSE PopWith(w, Raise("WebsocketError", "", "websocket"))

\* ---------------------------------------------------- refresh_access_token

\* Line 343: authenticate with the refresh grant.
RefreshStart(w) ==
  Call(w, [Top(w) EXCEPT !.pc = "auth_wait"],
       Frame("authenticate", "start", NoEp, Len(w.trace)))

\* Line 351 is reached only when authenticate returned.
RefreshAfterAuth(w) ==
  IF w.ret.kind = "raise" THEN PopWith(w, w.ret)
  ELSE PopWith([w EXCEPT !.self.actively_refreshing = FALSE], Value(NoBody))

\* ------------------------------------------------------------------ login

\* The login returns the object to the caller, or raises and the object is
\* lost (lines 152, 174).
LoginDone(w) ==
  IF w.ret.kind = "raise"
  THEN PopWith([w EXCEPT !.phase = "dead"], w.ret)
  ELSE PopWith([w EXCEPT !.phase = "ready"], Value(NoBody))

\* --------------------------------------------------------- the event loop

\* The code the top frame runs next.
Micro(w) ==
  LET f == Top(w) IN
  CASE f.fn = "request" /\ f.pc = "start" -> RequestStart(w)
    [] f.fn = "request" /\ f.pc = "preflight_wait" -> RequestAfterRefresh(w)
    [] f.fn = "request" /\ f.pc = "retry_wait" -> RequestAfterRetry(w)
    [] f.fn = "authenticate" /\ f.pc = "start" -> AuthStart(w)
    [] f.fn = "authenticate" /\ f.pc = "token_wait" -> AuthAfterToken(w)
    [] f.fn = "authenticate" /\ f.pc = "challenge_wait" -> AuthAfterChallenge(w)
    [] f.fn = "authenticate" /\ f.pc = "token2_wait" -> AuthAfterToken2(w)
    [] f.fn = "authenticate" /\ f.pc = "authcheck_wait" -> AuthAfterAuthCheck(w)
    [] f.fn = "refresh_access_token" /\ f.pc = "start" -> RefreshStart(w)
    [] f.fn = "refresh_access_token" /\ f.pc = "auth_wait" -> RefreshAfterAuth(w)
    [] f.fn \in {"login_via_credentials", "login_via_token"} -> LoginDone(w)

\* The fields of the object that differ between a and b, each with fn;
\* what authenticate changes is not kept.
Writes(fn, a, b) ==
  IF fn = "authenticate" \/ a = b THEN {}
  ELSE {<<fn, k>> : k \in {x \in DOMAIN a : a[x] # b[x]}}

\* The credentials of the object s: the access token, its expiry, the
\* refresh token and the user id.
Cred(s) ==
  <<s.access_token, s.access_token_expire, s.refresh_token, s.user_id>>

\* The frames of stack st, those up to the n-th marked when the credentials
\* have changed.
Touch(st, n, changed) ==
  IF changed
  THEN [i \in DOMAIN st |->
          IF i <= n THEN [st[i] EXCEPT !.same = FALSE] ELSE st[i]]
  ELSE st

\* The code of the top frame has taken the task from w to v: what it changed
\* of the object is put down to its function, and the invocations that were
\* running are marked when it changed the credentials.
Step(w, v) ==
  IF v.self = w.self THEN v
  ELSE [v EXCEPT !.wrote = @ \cup Writes(Top(w).fn, w.self, v.self),
                 !.stack = Touch(@, Len(w.stack), Cred(v.self) # Cred(w.self))]

\* A task runs until its coroutine suspends or its operation ends: nothing
\* else runs on the event loop meanwhile. (v is w, evaluated once.)
RECURSIVE Run(_)
Run(w) ==
  CHOOSE r \in {IF v.mode = "run" THEN Run(Step(v, Micro(v))) ELSE v :
                  v \in {w}} : TRUE

\* Task t has run to w. (v is w, evaluated once.)
Commit(t, w) ==
  \E v \in {w} :
    /\ v.mode # "stuck"
    /\ self' = v.self
    /\ phase' = v.phase
    /\ hist' = v.hist
    /\ stack' = [u \in Tasks |->
                   IF u = t THEN v.stack
                   ELSE Touch(stack[u], Len(stack[u]),
                              Cred(v.self) # Cred(self))]
    /\ ret' = [ret EXCEPT ![t] = v.ret]
    /\ trace' = [trace EXCEPT ![t] = v.trace]
    /\ pools' = [pools EXCEPT ![t] = v.pools]
    /\ last' = [last EXCEPT ![t] = v.last]
    /\ wrote' = [wrote EXCEPT ![t] = v.wrote]

Awaits(t, fn, pc) ==
  /\ stack[t] # <<>>
  /\ stack[t][Len(stack[t])].fn = fn
  /\ stack[t][Len(stack[t])].pc = pc

\* A new operation of task t begins with the given frames.
Begin(t, frames) ==
  [World(t) EXCEPT !.stack = frames, !.ret = NoRet, !.trace = <<>>,
                   !.pools = 0, !.last = NoLast, !.wrote = {}]

\* Task t has finished an operation whose outcome the caller has not taken.
Finished(t) == stack[t] = <<>> /\ ret[t].kind # "none"

Idle(t) == stack[t] = <<>> /\ ~Finished(t) /\ (t = 1 \/ conc)

\* ---------------------------------------------------------------- actions

\* Lines 135-150: the object is built and authenticates with the password.
LoginViaCredentials(t) ==
  /\ Idle(t)
  /\ phase = "new"
  /\ Commit(t, Run(Begin(t, <<Frame("login_via_credentials", "wait", NoEp, 0),
                              Frame("authenticate", "start", NoEp, 0)>>)))
  /\ UNCHANGED <<session, now, issued, conc, pure>>

\* Lines 172-174: the object is built and refreshes with the given token.
LoginViaToken(t) ==
  /\ Idle(t)
  /\ phase = "new"
  /\ Commit(t, Run(Begin(t, <<Frame("login_via_token", "wait", NoEp, 0),
                              Frame("refresh_access_token", "start", NoEp, 0)>>)))
  /\ UNCHANGED <<session, now, issued, conc, pure>>

\* The caller of a logged-in session calls request(method, endpoint).
CallRequest(t) ==
  /\ Idle(t)
  /\ phase = "ready"
  /\ \E ep \in TargetEndpoints :
       Commit(t, Run(Begin(t, <<Frame("request", "start", ep, 0)>>)))
  /\ UNCHANGED <<session, now, issued, conc, pure>>

\* The server answers the call a request frame of task t awaits, and the
\* task runs on.
Respond(t) ==
  /\ Awaits(t, "request", "await")
  /\ \E r \in Responses(Top(World(t)).ep) :
       /\ Commit(t, Run(Step(World(t), RequestClassify(World(t), r))))
       /\ issued' = IF r.body.tok # 0 THEN issued + 1 ELSE issued
  /\ UNCHANGED <<session, now, conc, pure>>

\* The event channel is up, or failed to come up, and the task runs on.
WebsocketInit(t) ==
  /\ Awaits(t, "authenticate", "ws_wait")
  /\ \E ok \in BOOLEAN :
       Commit(t, Run(Step(World(t), AuthAfterWebsocket(World(t), ok))))
  /\ UNCHANGED <<session, now, issued, conc, pure>>

\* The caller takes the outcome of the operation task t has finished: what
\* was recorded of the operation is dropped.
Collect(t) ==
  /\ Finished(t)
  /\ ret' = [ret EXCEPT ![t] = NoRet]
  /\ trace' = [trace EXCEPT ![t] = <<>>]
  /\ pools' = [pools EXCEPT ![t] = 0]
  /\ last' = [last EXCEPT ![t] = NoLast]
  /\ wrote' = [wrote EXCEPT ![t] = {}]
  /\ UNCHANGED <<self, session, now, issued, phase, conc, stack, hist, pure>>

\* The caller closes the pool it injected.
CloseSession ==
  /\ \A t \in Tasks : ~Finished(t)
  /\ session = "open"
  /\ session' = "closed"
  /\ UNCHANGED <<self, now, issued, phase, conc, stack, ret,
                 trace, pools, last, wrote, hist, pure>>

\* Time passes.
Tick ==
  /\ \A t \in Tasks : ~Finished(t)
  /\ now < MaxTime
  /\ now' = now + 1
  /\ UNCHANGED <<self, session, issued, phase, conc, stack, ret,
                 trace, pools, last, wrote, hist, pure>>

\* ------------------------------------------------------------ specification

\* get_systems has not been called, and no identifier has been passed.
NoGs == [subs |-> <<>>, i |-> 0, systems |-> <<>>, pc |-> "idle", err |-> ""]
NoDev == [given |-> <<>>, client_id |-> <<>>, device_id |-> <<>>, pc |-> "idle"]

\* The session after __init__.
ApiInit ==
  /\ self = NoSelf
  /\ session \in {"open", "closed"}
  /\ now = 1
  /\ issued = 0
  /\ phase = "new"
  /\ conc = FALSE
  /\ stack = [t \in Tasks |-> <<>>]
  /\ ret = [t \in Tasks |-> NoRet]
  /\ trace = [t \in Tasks |-> <<>>]
  /\ pools = [t \in Tasks |-> 0]
  /\ last = [t \in Tasks |-> NoLast]
  /\ wrote = [t \in Tasks |-> {}]
  /\ hist = [due |-> None, forced |-> None]

\* After __init__ (lines 69-81), with or without an injected pool.
Init ==
  /\ gs = NoGs
  /\ dev = NoDev
  /\ ApiInit

Next ==
  \/ \E t \in Tasks : LoginViaCredentials(t)
  \/ \E t \in Tasks : LoginViaToken(t)
  \/ \E t \in Tasks : CallRequest(t)
  \/ \E t \in Tasks : Respond(t)
  \/ \E t \in Tasks : WebsocketInit(t)
  \/ \E t \in Tasks : Collect(t)
  \/ CloseSession
  \/ Tick

Spec == Init /\ [][Next]_vars

\* ------------------------------------------------- two concurrent requests

\* A logged-in object whose access token has expired: the login stored token
\* pair 1 at instant 1 with a declared lifetime of Margin + 1, and the clock
\* has reached the expiry since.
ExpiredSelf ==
  [access_token |-> 1, access_token_expire |-> 2,
   actively_refreshing |-> FALSE, refresh_token |-> 1, user_id |-> 7]

\* The caller holds the logged-in session, its token expired, and runs two
\* tasks on it.
InitConc ==
  /\ gs = NoGs
  /\ dev = NoDev
  /\ self = ExpiredSelf
  /\ session = "open"
  /\ now = 2
  /\ issued = 1
  /\ phase = "ready"
  /\ conc = TRUE
  /\ stack = [t \in Tasks |-> <<>>]
  /\ ret = [t \in Tasks |-> NoRet]
  /\ trace = [t \in Tasks |-> <<>>]
  /\ pools = [t \in Tasks |-> 0]
  /\ last = [t \in Tasks |-> NoLast]
  /\ wrote = [t \in Tasks |-> {}]
  /\ hist = [due |-> 2, forced |-> None]

\* The answers of a server that accepts a call, with a complete body, or
\* answers it 401 without a marker.
PlainResponses(ep) ==
  {r \in Responses(ep) :
     /\ r.kind = "http"
     /\ r.marker = "none"
     /\ r.status \in {200, 401}
     /\ r.status = 200 => r.body.content \in {"tokens", "userId", "data"}}

\* The server answers the call of task t in flight with one of rs, and the
\* task runs on.
RespondWith(t, rs) ==
  /\ \E r \in rs :
       /\ Commit(t, Run(Step(World(t), RequestClassify(World(t), r))))
       /\ issued' = IF r.body.tok # 0 THEN issued + 1 ELSE issued
  /\ UNCHANGED <<session, now, conc, pure>>

\* The server accepts the call task t awaits, or answers it 401.
RespondPlain(t) ==
  /\ Awaits(t, "request", "await")
  /\ RespondWith(t, PlainResponses(Top(World(t)).ep))

\* Each task invokes request once. The tasks interleave where their
\* coroutines suspend: at the calls and at the initialisation of the event
\* channel.
NextConc ==
  \/ \E t \in Tasks : CallRequest(t)
  \/ \E t \in Tasks : RespondPlain(t)
  \/ \E t \in Tasks : WebsocketInit(t)

\* The event loop keeps running: every call is answered in the end.
SpecConc == InitConc /\ [][NextConc]_vars /\ WF_vars(NextConc)

\* The answers of a server that accepts every token exchange and identity
\* check and answers 401 to none but a call bearing the expired access token:
\* bearer is the token the call bore.
AcceptingResponses(ep, bearer) ==
  {r \in PlainResponses(ep) :
     /\ ep \in {TokenEp, AuthCheckEp} => r.status = 200
     /\ r.status = 401 => bearer = ExpiredSelf.access_token}

\* Such a server answers the call task t awaits.
RespondAccepting(t) ==
  /\ Awaits(t, "request", "await")
  /\ RespondWith(t, AcceptingResponses(Top(World(t)).ep,
                                       trace[t][Len(trace[t])].tok))

NextRace ==
  \/ \E t \in Tasks : CallRequest(t)
  \/ \E t \in Tasks : RespondAccepting(t)
  \/ \E t \in Tasks : WebsocketInit(t)

\* Two requests on the session whose token has expired, against the
\* accepting server.
SpecRace == InitConc /\ [][NextRace]_vars

\* ------------------------------------------------------------- get_systems

\* Line 40: the system class of each version.
SYSTEM_MAP == [v \in {2, 3} |-> IF v = 2 THEN "SystemV2" ELSE "SystemV3"]

\* The versions a subscription may carry: none, or a number.
Versions == {None, 1, 2, 3}

\* The lists of subscriptions a response may hold: the k-th has sid k.
SubscriptionLists ==
  UNION {{[k \in 1..n |-> [sid |-> k, version |-> f[k]]] :
            f \in [1..n -> Versions]} : n \in 0..MaxSubs}

\* Lines 244-256: one turn of the loop, up to the update of the new system.
GetSystemsLoop ==
  /\ gs.pc = "loop"
  /\ gs.i <= Len(gs.subs)
  /\ LET version == gs.subs[gs.i].version IN
     gs' = IF version = None
           THEN [gs EXCEPT !.i = @ + 1]        \* logged and skipped
           ELSE IF version \notin DOMAIN SYSTEM_MAP
           THEN [gs EXCEPT !.pc = "raised", !.err = "KeyError"]
           ELSE [gs EXCEPT !.pc = "update"]
  /\ UNCHANGED <<apivars, dev>>

\* Lines 257-258: system.update returns and the system is entered in the
\* registry under the subscription's sid, or system.update raises.
SystemUpdate ==
  /\ gs.pc = "update"
  /\ LET sub == gs.subs[gs.i] IN
     \E ok \in BOOLEAN :
       gs' = IF ok
             THEN [gs EXCEPT
                     !.systems = [k \in DOMAIN @ \cup {sub.sid} |->
                                    IF k = sub.sid THEN SYSTEM_MAP[sub.version]
                                    ELSE @[k]],
                     !.i = @ + 1, !.pc = "loop"]
             ELSE [gs EXCEPT !.pc = "raised", !.err = "UpdateError"]
  /\ UNCHANGED <<apivars, dev>>

\* Line 260: the loop is over and the registry is returned.
GetSystemsReturn ==
  /\ gs.pc = "loop"
  /\ gs.i > Len(gs.subs)
  /\ gs' = [gs EXCEPT !.pc = "returned"]
  /\ UNCHANGED <<apivars, dev>>

\* Line 243: the subscriptions have been fetched and the registry is empty.
InitSystems ==
  /\ ApiInit
  /\ dev = NoDev
  /\ \E subs \in SubscriptionLists :
       gs = [subs |-> subs, i |-> 1, systems |-> <<>>, pc |-> "loop",
             err |-> ""]

NextSystems == GetSystemsLoop \/ SystemUpdate \/ GetSystemsReturn

SpecSystems == InitSystems /\ [][NextSystems]_vars

\* ------------------------------------------------------ generate_device_id

\* A character is the bytes of its UTF-8 encoding: "a", and a character of
\* two bytes.
Chars == {<<97>>, <<195, 169>>}

\* The client identifiers a caller may pass: the empty one stands for none.
ClientIds == UNION {[1..n -> Chars] : n \in 0..MaxIdLen}

\* str(uuid4()): 36 characters, hyphens at the 9th, 14th, 19th and 24th.
Uuid(d) == [k \in 1..36 |-> IF k \in {9, 14, 19, 24} THEN <<45>> ELSE <<d>>]
Uuids == {Uuid(48), Uuid(102)}

\* client_id.encode(): the bytes of the characters, in order.
RECURSIVE Utf8(_)
Utf8(cs) == IF cs = <<>> THEN <<>> ELSE Head(cs) \o Utf8(Tail(cs))

\* The character of the base64 alphabet that stands for the six bits i.
B64Char(i) ==
  IF i < 26 THEN 65 + i
  ELSE IF i < 52 THEN 71 + i
  ELSE IF i < 62 THEN i - 4
  ELSE IF i = 62 THEN 43 ELSE 47

\* base64.b64encode(bs).decode(): four characters for every three bytes, the
\* last group padded with "=".
RECURSIVE B64Encode(_)
B64Encode(bs) ==
  IF bs = <<>> THEN <<>>
  ELSE IF Len(bs) = 1
  THEN <<B64Char(bs[1] \div 4), B64Char((bs[1] % 4) * 16), 61, 61>>
  ELSE IF Len(bs) = 2
  THEN <<B64Char(bs[1] \div 4),
         B64Char((bs[1] % 4) * 16 + bs[2] \div 16),
         B64Char((bs[2] % 16) * 4), 61>>
  ELSE <<B64Char(bs[1] \div 4),
         B64Char((bs[1] % 4) * 16 + bs[2] \div 16),
         B64Char((bs[2] % 16) * 4 + bs[3] \div 64),
         B64Char(bs[3] % 64)>> \o B64Encode(SubSeq(bs, 4, Len(bs)))

\* The slices s[:n] and s[n:].
Take(s, n) == SubSeq(s, 1, IF n < Len(s) THEN n ELSE Len(s))
Drop(s, n) == SubSeq(s, n + 1, Len(s))

\* Lines 46-49.
generate_device_id(client_id) ==
  LET seed == Take(B64Encode(Utf8(client_id)), 10) IN
  Take(seed, 5) \o <<45>> \o Drop(seed, 5)

\* Lines 75-77: the identifier passed, or a fresh one when none is, and the
\* device id derived from it.
ApiInitIdentity ==
  /\ dev.pc = "given"
  /\ \E u \in IF dev.given # <<>> THEN {dev.given} ELSE Uuids :
       dev' = [dev EXCEPT !.client_id = u,
                          !.device_id = generate_device_id(u),
                          !.pc = "built"]
  /\ UNCHANGED <<apivars, gs>>

\* __init__ is called with a client identifier.
InitDevice ==
  /\ ApiInit
  /\ gs = NoGs
  /\ \E c \in ClientIds :
       dev = [given |-> c, client_id |-> <<>>, device_id |-> <<>>,
              pc |-> "given"]

NextDevice == ApiInitIdentity

SpecDevice == InitDevice /\ [][NextDevice]_vars

\* ------------------------------------------------------------------ claims

\* The frames of task t that are invocations of request on endpoint ep.
RequestFramesOf(t, ep) ==
  {i \in DOMAIN stack[t] : stack[t][i].fn = "request" /\ stack[t][i].ep = ep}

\* The entries of task t's trace that are calls of endpoint ep.
SendsOf(t, ep) == {i \in DOMAIN trace[t] : trace[t][i].ep = ep}

\* Task t runs a top-level request(method, endpoint).
TopLevelRequest(t) == stack[t] # <<>> /\ stack[t][1].fn = "request"

\* C1: within one top-level request the target endpoint is sent at most
\* twice, and a 401 on the retried call starts no further refresh-and-retry
\* cycle: the original invocation and one retry are all the invocations of
\* request on the target there ever are. (Stated of the endpoints whose path
\* holds neither 401 nor 403: there only a status of 401 is taken for a 401.)
C1_RetryBoundedToOne ==
  \A t \in Tasks :
    (/\ TopLevelRequest(t)
     /\ ~InNumber(stack[t][1].ep.uid, 401)
     /\ ~InNumber(stack[t][1].ep.uid, 403)) =>
      /\ Cardinality(SendsOf(t, stack[t][1].ep)) <= 2
      /\ Cardinality(RequestFramesOf(t, stack[t][1].ep)) <= 2

\* C2: on a logged-in session, once no refresh is running, the 'actively
\* refreshing' guard is clear, whether the refresh returned or raised.
C2_GuardClearAfterRefresh ==
  (/\ phase = "ready"
   /\ \A t \in Tasks : \A i \in DOMAIN stack[t] :
        stack[t][i].fn # "refresh_access_token")
  => ~self.actively_refreshing

\* C3: a call that request sends after taking the pre-flight branch is
\* preceded, since request was entered, by exactly one refresh, complete: one
\* token exchange, one identity check and the initialisation of the event
\* channel; and no invocation of request nested in a pre-flight refresh takes
\* the pre-flight branch itself.
C3_PreflightRefreshOnceBeforeCall ==
  \A t \in Tasks : \A i \in DOMAIN stack[t] :
    LET f == stack[t][i] IN
    /\ (f.fn = "request" /\ f.pre /\ f.pc \in {"await", "retry_wait"}) =>
         /\ Len(trace[t]) >= f.base + 4
         /\ trace[t][f.base + 1].ep = TokenEp
         /\ trace[t][f.base + 2].ep = AuthCheckEp
         /\ trace[t][f.base + 3].ep.path = "websocket.async_init"
         /\ trace[t][f.base + 4].ep = f.ep
    /\ (f.fn = "request" /\ f.pc = "preflight_wait") =>
         \A j \in DOMAIN stack[t] :
           (j > i /\ stack[t][j].fn = "request") =>
             ~stack[t][j].pre /\ stack[t][j].pc # "preflight_wait"

\* A call is in flight that request sent after a pre-flight refresh.
C3_Witness ==
  \E t \in Tasks :
    /\ Awaits(t, "request", "await")
    /\ stack[t][Len(stack[t])].pre
    /\ Len(trace[t]) = stack[t][Len(stack[t])].base + 4

\* C4: a 401 whose body carries neither marker, answered while no refresh
\* token is stored, raises Invalid-Credentials and ends the operation: the
\* object is left as it was, nothing is sent after the answer and no refresh
\* is started.
C4_Unmarked401WithoutRefreshToken ==
  \A t \in Tasks :
    (/\ last[t].kind = "http"
     /\ last[t].status = 401
     /\ last[t].marker = "none"
     /\ last[t].before.refresh_token = None)
    => /\ last[t].out = "raise"
       /\ last[t].err = "InvalidCredentialsError"
       /\ last[t].after = last[t].before
       /\ Len(trace[t]) = last[t].sent
       /\ Finished(t)
       /\ ret[t].err = "InvalidCredentialsError"

\* A 401 without a marker has been answered to a session without a refresh
\* token, and Invalid-Credentials has reached the caller.
C4_Witness ==
  \E t \in Tasks :
    /\ last[t].kind = "http"
    /\ last[t].status = 401
    /\ last[t].marker = "none"
    /\ last[t].before.refresh_token = None
    /\ ret[t].err = "InvalidCredentialsError"

\* C4 as stated: every 401 answered while no refresh token is stored raises
\* Invalid-Credentials, whatever its body.
C4_Any401WithoutRefreshToken ==
  \A t \in Tasks :
    (/\ last[t].kind = "http"
     /\ last[t].status = 401
     /\ last[t].before.refresh_token = None)
    => /\ last[t].out = "raise"
       /\ last[t].err = "InvalidCredentialsError"

\* C5: once authenticate has seen mfa_token and sent the challenge and the
\* second token exchange, it ends in Pending-Authorization whatever the
\* second exchange answers.
C5_PendingWhateverSecondExchange ==
  \A t \in Tasks :
    (/\ Finished(t)
     /\ \E i \in DOMAIN trace[t] :
          /\ trace[t][i].ep = ChallengeEp
          /\ i < Len(trace[t])
          /\ trace[t][i + 1].ep = TokenEp)
    => ret[t].err = "PendingAuthorizationError"

\* C6: every locally created pool that is open belongs to an invocation of
\* request that has yet to return or raise.
C6_LocalPoolAlwaysClosed ==
  \A t \in Tasks :
    pools[t] = Cardinality({i \in DOMAIN stack[t] : stack[t][i].own = "open"})

\* C7: while an access token is stored that came with a declared lifetime,
\* the stored expiry is the instant the token was stored at plus that
\* lifetime less the margin, until the retry rule of request sets it: from
\* then on it is the instant at which that rule last fired.
C7_ExpiryDueOrForced ==
  (self.access_token # None /\ hist.due # None)
  => /\ self.access_token_expire # None
     /\ self.access_token_expire =
          IF hist.forced # None THEN hist.forced ELSE hist.due

\* The retry rule has set the expiry of a stored token to another instant
\* than the token's own.
C7_Witness ==
  /\ self.access_token # None
  /\ hist.due # None
  /\ hist.forced # None
  /\ hist.forced # hist.due
  /\ self.access_token_expire = hist.forced

\* C7 as stated: the access token of a logged-in session always has the
\* expiry that its issue time and declared lifetime give, less the margin.
C7_ExpiryAlwaysIssuePlusLifetime ==
  (phase = "ready" /\ self.access_token # None)
  => /\ self.access_token_expire # None
     /\ hist.due # None
     /\ self.access_token_expire = hist.due

\* C8: a failure that request raises reaches the caller as one of the four
\* classified kinds.
C8_RequestFailuresClassified ==
  \A t \in Tasks :
    (Finished(t) /\ ret[t].kind = "raise" /\ ret[t].src = "request")
    => ret[t].err \in Classified

\* The priority order of the rules, on the status code: what request does
\* and the error it raises.
C9_Outcome(status, marker, refreshing, rtoken) ==
  IF marker = "mfa_required" THEN <<"value", "">>
  ELSE IF marker = "NoRemoteManagement" THEN <<"raise", "EndpointUnavailable">>
  ELSE IF status = 401
  THEN IF refreshing THEN <<"raise", "InvalidCredentialsError">>
       ELSE IF rtoken # None THEN <<"retry", "">>
       ELSE <<"raise", "InvalidCredentialsError">>
  ELSE IF status = 403 THEN <<"raise", "InvalidCredentialsError">>
  ELSE <<"raise", "RequestError">>

\* C9: what request does with a failing response is what the priority order
\* gives for its status code, its markers, the guard and the presence of a
\* refresh token, whatever the endpoint; without a retry the object is left
\* as it was.
C9_OutcomeByStatusAndMarkers ==
  \A t \in Tasks :
    (last[t].kind = "http" /\ RaisesForStatus(last[t].status))
    => /\ <<last[t].out, last[t].err>> =
            C9_Outcome(last[t].status, last[t].marker,
                       last[t].before.actively_refreshing,
                       last[t].before.refresh_token)
       /\ (last[t].out # "retry" => last[t].after = last[t].before)

\* C10: a failing response whose body says mfa_required is returned, for
\* every status code, and the object is left as it was: no retry, no refresh,
\* no error, the expiry and the guard unchanged.
C10_MfaRequiredReturned ==
  \A t \in Tasks :
    (/\ last[t].kind = "http"
     /\ RaisesForStatus(last[t].status)
     /\ last[t].marker = "mfa_required")
    => /\ last[t].out = "value"
       /\ last[t].err = ""
       /\ last[t].after = last[t].before

\* A 401 that says mfa_required has been returned to a session that holds a
\* refresh token and is not refreshing: the 401 rule would have retried.
C10_Witness ==
  \E t \in Tasks :
    /\ last[t].kind = "http"
    /\ last[t].status = 401
    /\ last[t].marker = "mfa_required"
    /\ last[t].before.refresh_token # None
    /\ ~last[t].before.actively_refreshing
    /\ last[t].out = "value"

\* The entries of trace tr that are initialisations of the event channel.
WsInits(tr) == {k \in DOMAIN tr : tr[k].ep.path = "websocket.async_init"}

\* C11: an authenticate that has seen mfa_token has left the credentials
\* (access token, expiry, refresh token, user id) as they were when it was
\* called, no step taken while it runs changes them or initialises the event
\* channel, and it ends by raising.
C11_MfaYieldsNothing ==
  [][\A t \in Tasks : \A i \in DOMAIN stack[t] :
       (stack[t][i].fn = "authenticate" /\ stack[t][i].mfa) =>
         /\ stack[t][i].same
         /\ Cred(self') = Cred(self)
         /\ WsInits(trace'[t]) = WsInits(trace[t])
         /\ (Len(stack'[t]) < i => ret'[t].kind = "raise")]_vars

\* The refresh of a logged-in session has taken the MFA path and has ended
\* in Pending-Authorization.
C11_Witness ==
  \E t \in Tasks :
    /\ Finished(t)
    /\ ret[t].err = "PendingAuthorizationError"
    /\ phase = "ready"
    /\ self.access_token # None

\* C12: get_systems does not fail because of a subscription's version, and
\* the registry it returns holds exactly the subscriptions whose version is
\* recognised.
C12_UnrecognisedVersionSkipped ==
  /\ (gs.pc = "raised" => gs.err # "KeyError")
  /\ (gs.pc = "returned" =>
        DOMAIN gs.systems =
          {gs.subs[k].sid : k \in {j \in DOMAIN gs.subs :
                                     gs.subs[j].version \in {2, 3}}})

\* C13: the device id of every client identifier is eleven characters long:
\* five characters, a hyphen, five characters.
C13_DeviceIdElevenLong ==
  dev.pc = "built" =>
    /\ Len(dev.device_id) = 11
    /\ dev.device_id[6] = 45
    /\ dev.device_id = generate_device_id(dev.client_id)

\* C14: outside authenticate, request changes nothing of the object but the
\* guard and the expiry, and refresh_access_token nothing but the guard: the
\* access token, the refresh token and the user id are authenticate's alone.
\* When request classifies an answer it changes the expiry, on the retry
\* path, and nothing else.
C14_RequestWritesGuardAndExpiryOnly ==
  \A t \in Tasks :
    /\ wrote[t] \subseteq {<<"request", "actively_refreshing">>,
                           <<"request", "access_token_expire">>,
                           <<"refresh_access_token", "actively_refreshing">>}
    /\ (last[t].kind # "none" =>
          last[t].after =
            [last[t].before EXCEPT !.access_token_expire =
               IF last[t].out = "retry" THEN last[t].after.access_token_expire
               ELSE @])

\* An operation in which request has set the guard and the expiry and
\* refresh_access_token has cleared the guard.
C14_Witness ==
  \E t \in Tasks :
    wrote[t] = {<<"request", "actively_refreshing">>,
                <<"request", "access_token_expire">>,
                <<"refresh_access_token", "actively_refreshing">>}

\* C14 as stated: the access token, the expiry, the refresh token and the
\* guard are changed by authenticate alone.
C14_OnlyAuthenticateWrites ==
  \A t \in Tasks :
    \A x \in wrote[t] :
      x[2] \notin {"access_token", "access_token_expire", "refresh_token",
                   "actively_refreshing"}

\* The authenticate invocations of task t that stored tokens and now await
\* the event channel.
AuthAtWebsocket(t) ==
  {i \in DOMAIN stack[t] :
     stack[t][i].fn = "authenticate" /\ stack[t][i].pc = "ws_wait"}

\* C16: when an authenticate hands the event channel its token and user id,
\* it has sent exactly two calls, in this order: the token exchange, and the
\* identity check bearing the access token it stored, which is not the one
\* the token exchange bore and is the one the channel is handed, with the
\* stored user id; and every initialisation of the channel directly follows
\* an identity check that bore the same token.
C16_AuthenticateStepsInOrder ==
  \A t \in Tasks :
    /\ \A i \in AuthAtWebsocket(t) :
         LET f == stack[t][i] IN
         /\ Len(trace[t]) = f.base + 2
         /\ trace[t][f.base + 1].ep = TokenEp
         /\ trace[t][f.base + 2].ep = AuthCheckEp
         /\ trace[t][f.base + 2].tok = f.ws.tok
         /\ trace[t][f.base + 2].tok # trace[t][f.base + 1].tok
         /\ f.ws.tok = self.access_token
         /\ f.ws.uid = self.user_id
    /\ \A k \in WsInits(trace[t]) :
         /\ k > 1
         /\ trace[t][k - 1].ep = AuthCheckEp
         /\ trace[t][k - 1].tok = trace[t][k].tok

\* A 401 has been answered to task t outside a refresh, a refresh token
\* being stored.
Got401OutsideRefresh(t) ==
  /\ last[t].kind = "http"
  /\ last[t].status = 401
  /\ ~last[t].before.actively_refreshing
  /\ last[t].before.refresh_token # None

\* C17: a 401 whose body carries neither marker, answered outside a refresh
\* while a refresh token is stored, sets the expiry to an instant that is not
\* in the future and re-issues the call; the re-issued invocation is of the
\* same endpoint and starts a refresh before it sends anything; and the call
\* it then sends follows that refresh, complete, and bears the token the
\* refresh stored, which is not the one the answered call bore.
C17_RefreshBeforeResend ==
  \A t \in Tasks :
    /\ (Got401OutsideRefresh(t) /\ last[t].marker = "none") =>
         /\ last[t].out = "retry"
         /\ last[t].after.access_token_expire # None
         /\ last[t].after.access_token_expire <= now
    /\ \A i \in DOMAIN stack[t] :
         (stack[t][i].fn = "request" /\ stack[t][i].pc = "retry_wait") =>
           /\ i < Len(stack[t])
           /\ LET f == stack[t][i]
                  g == stack[t][i + 1]
              IN
              /\ g.fn = "request"
              /\ g.ep = f.ep
              /\ g.pre
              /\ trace[t][g.base].ep = f.ep
              /\ Len(trace[t]) > g.base => trace[t][g.base + 1].ep = TokenEp
              /\ g.pc # "preflight_wait" =>
                   /\ trace[t][g.base + 2].ep = AuthCheckEp
                   /\ trace[t][g.base + 3].ep.path = "websocket.async_init"
                   /\ trace[t][g.base + 4].ep = f.ep
                   /\ trace[t][g.base + 4].tok = trace[t][g.base + 2].tok
                   /\ trace[t][g.base + 4].tok # trace[t][g.base].tok

\* A call answered 401 has been re-sent after a refresh, bearing another
\* token, and is in flight.
C17_Witness ==
  \E t \in Tasks :
    /\ Len(stack[t]) = 2
    /\ stack[t][1].fn = "request"
    /\ stack[t][1].pc = "retry_wait"
    /\ stack[t][2].pc = "await"
    /\ hist.forced = None
    /\ trace[t][stack[t][2].base + 4].tok # trace[t][stack[t][2].base].tok

\* C17 as stated: every 401 answered outside a refresh while a refresh token
\* is stored forces the expiry and has the call re-issued, whatever its body.
C17_Any401ForcesExpiry ==
  \A t \in Tasks :
    Got401OutsideRefresh(t) =>
      /\ last[t].out = "retry"
      /\ last[t].after.access_token_expire # None
      /\ last[t].after.access_token_expire <= now

\* The invocations of request by task t whose pre-flight refresh awaits the
\* answer to its token exchange.
PreflightAtTokenExchange(t) ==
  {i \in DOMAIN stack[t] :
     /\ Len(stack[t]) = i + 3
     /\ stack[t][i].fn = "request"
     /\ stack[t][i].pc = "preflight_wait"
     /\ stack[t][i + 1].fn = "refresh_access_token"
     /\ stack[t][i + 2].fn = "authenticate"
     /\ stack[t][i + 2].pc = "token_wait"
     /\ stack[t][i + 3].pc = "await"}

\* C19: when the token exchange of a refresh that request's pre-flight check
\* started is answered with a failure, the access token, the expiry, the
\* refresh token and the user id are what they were when that request was
\* invoked, the event channel is not initialised, and the failure ends the
\* operation.
C19_FailedPreflightLeavesCredentials ==
  [][\A t \in Tasks : \A i \in PreflightAtTokenExchange(t) :
       (/\ last'[t].sent = Len(trace[t])
        /\ last'[t].ep = TokenEp
        /\ last'[t].out = "raise") =>
         /\ stack[t][i].same
         /\ Cred(self') = Cred(self)
         /\ WsInits(trace'[t]) = WsInits(trace[t])
         /\ stack'[t] = <<>>
         /\ ret'[t].kind = "raise"]_vars

\* A request on a logged-in session has set the guard, sent the token
\* exchange of its pre-flight refresh and nothing else, and failed with the
\* failure of that call.
C19_Witness ==
  \E t \in Tasks :
    /\ phase = "ready"
    /\ Finished(t)
    /\ ret[t].kind = "raise"
    /\ <<"request", "actively_refreshing">> \in wrote[t]
    /\ Len(trace[t]) = 1
    /\ last[t].ep = TokenEp
    /\ last[t].out = "raise"

\* The refreshes in flight that a pre-flight check started, each as the task
\* and the invocation of request that started it.
PreflightRefreshes ==
  {x \in Tasks \X (1..MaxDepth) :
     /\ x[2] \in DOMAIN stack[x[1]]
     /\ stack[x[1]][x[2]].fn = "request"
     /\ stack[x[1]][x[2]].pc = "preflight_wait"}

\* C15: with two tasks on a session whose token has expired, at most one
\* refresh started by a pre-flight check is in flight at any time, and while
\* it is the guard is set: the test of the guard and its setting (lines
\* 266-275) run without suspension.
C15_OnePreflightRefreshAtATime ==
  /\ Cardinality(PreflightRefreshes) <= 1
  /\ PreflightRefreshes # {} => self.actively_refreshing

\* The pre-flight refresh of task 1 is in flight and task 2, invoked
\* meanwhile, has sent its call without a refresh, bearing the expired token.
C15_Witness ==
  /\ PreflightRefreshes = {<<1, 1>>}
  /\ Awaits(1, "request", "await")
  /\ Len(stack[2]) = 1
  /\ Awaits(2, "request", "await")
  /\ ~stack[2][1].pre
  /\ trace[2] = <<[ep |-> stack[2][1].ep, tok |-> ExpiredSelf.access_token]>>

\* C15 as stated: two refreshes started by pre-flight checks come to be in
\* flight at the same time.
C15_TwoPreflightRefreshesInFlight ==
  <>(Cardinality(PreflightRefreshes) >= 2)

\* C18: with two concurrent requests on a session whose access token has
\* expired, against a server that accepts every token exchange and identity
\* check and answers 401 to none but calls bearing the expired token, no
\* request fails with Invalid-Credentials.
C18_OverlapNotInvalidCredentials ==
  \A t \in Tasks :
    Finished(t) => ret[t].err # "InvalidCredentialsError"

====
